---- MODULE Spec2Model ----
(***************************************************************************)
(* openssh_wrapper.py: a wrapper around the ssh and scp binaries.          *)
(*                                                                         *)
(* Python strings are sequences of symbols (one-element TLA+ strings; a    *)
(* source literal whose inner structure never matters is one symbol).      *)
(* Python values are records tagged with their type.                       *)
(***************************************************************************)
EXTENDS Integers, Sequences, FiniteSets, TLC

VARIABLES
    py,        \* major version of the interpreter running the module (2 or 3)
    op,        \* the top-level call being made, with its arguments
    conn,      \* the SSHConnection object (PyNone until constructed)
    ret,       \* outcome of the top-level call: pending, return or raise
    alarm,     \* process-wide SIGALRM timer: "off" or "armed"
    fired,     \* number of SIGALRM deliveries so far
    handler,   \* process-wide SIGALRM disposition
    children,  \* child processes spawned so far, in order of spawning
    tmp,       \* temporary directory of the scp call: state and rmtree count
    scp_pc,    \* position of the scp frame
    scp_f,     \* locals of the scp frame
    gst_pc,    \* position of the get_scp_targets frame
    gst_f,     \* locals of the get_scp_targets frame
    run_pc,    \* position of the run frame
    run_f,     \* locals of the run frame
    due,       \* seconds left on the SIGALRM timer (0 when it is off)
    threads    \* the calls of each thread where calls overlap, else <<>>

vars == <<py, op, conn, ret, alarm, fired, handler, children, tmp,
          scp_pc, scp_f, gst_pc, gst_f, run_pc, run_f, due, threads>>

procvars == <<alarm, fired, handler, children, tmp, scp_pc, scp_f, gst_pc, gst_f, run_pc, run_f,
              due, threads>>

-----------------------------------------------------------------------------
(* Python values *)

PyNone == [t |-> "none"]

PyText(s) == [t |-> "text", v |-> s]

PyBytes(s) == [t |-> "bytes", v |-> s]

PyInt(n) == [t |-> "int", n |-> n]

PyList(xs) == [t |-> "list", v |-> xs]

PyFile(nm) == [t |-> "file", name |-> nm]

PyExc(cls, m) == [t |-> "exc", cls |-> cls, msg |-> m]

IsExc(x) == x.t = "exc"

\* isinstance(x, text): the version test compares a character with the
\* number 2 and is never true, so text is str under both versions.
IsText(x) == IF py = 3 THEN x.t = "text" ELSE x.t = "bytes"

IsBytes(x) == x.t = "bytes"

IsString(x) == x.t \in {"text", "bytes"}

\* truth value of a Python object
Truthy(x) ==
    CASE x.t = "none" -> FALSE
      [] x.t \in {"text", "bytes", "list"} -> Len(x.v) > 0
      [] x.t = "int" -> x.n # 0
      [] OTHER -> TRUE

RECURSIVE Flatten(_)
Flatten(ss) == IF ss = <<>> THEN <<>> ELSE Head(ss) \o Flatten(Tail(ss))

\* UTF-8 encoding of one symbol: ASCII is one byte, U+00E9 is two.
Utf8(c) == IF c = "U+00E9" THEN <<"0xC3", "0xA9">> ELSE <<c>>

Encode(s) == Flatten([i \in 1..Len(s) |-> Utf8(s[i])])

\* A native string (str) of the characters s: text under Python 3, the
\* UTF-8 byte string under Python 2.
Lit(s) == IF py = 3 THEN PyText(s) ELSE PyBytes(Encode(s))

RECURSIVE Decode(_)
Decode(s) ==
    IF s = <<>> THEN <<>>
    ELSE IF Len(s) >= 2 /\ s[1] = "0xC3" /\ s[2] = "0xA9"
         THEN <<"U+00E9">> \o Decode(SubSeq(s, 3, Len(s)))
         ELSE <<s[1]>> \o Decode(Tail(s))

AttributeError(what) == PyExc("AttributeError", <<what>>)

b(x) ==
    IF IsBytes(x) THEN x
    ELSE IF x.t = "text" THEN PyBytes(Encode(x.v))
    ELSE AttributeError("encode")

u(x) ==
    IF IsText(x) THEN x
    ELSE IF IsString(x) THEN PyText(Decode(x.v))
    ELSE AttributeError("decode")

\* the first exception raised while mapping f over the items, if any
FirstExc(ys) ==
    IF \E i \in 1..Len(ys) : IsExc(ys[i])
    THEN ys[CHOOSE i \in 1..Len(ys) : IsExc(ys[i]) /\ \A j \in 1..(i-1) : ~IsExc(ys[j])]
    ELSE PyNone

\* iterating a Python object: a list gives its items, a string its characters
Items(x) ==
    IF x.t = "list" THEN x.v
    ELSE [i \in 1..Len(x.v) |-> [t |-> IF py = 3 /\ x.t = "bytes" THEN "int8" ELSE x.t, v |-> <<x.v[i]>>]]

b_list(items) ==
    LET ys == [i \in 1..Len(Items(items)) |-> b(Items(items)[i])]
    IN  IF FirstExc(ys) # PyNone THEN FirstExc(ys) ELSE PyList(ys)

-----------------------------------------------------------------------------
(* SSHConnection.__init__ *)

Lower == {"a","b","c","d","e","f","g","h","i","j","k","l","m",
          "n","o","p","q","r","s","t","u","v","w","x","y","z"}

Upper == {"A","B","C","D","E","F","G","H","I","J","K","L","M",
          "N","O","P","Q","R","S","T","U","V","W","X","Y","Z"}

Digit == {"0","1","2","3","4","5","6","7","8","9"}

\* the character class [a-zA-Z0-9.\-_]
NameClass == Lower \cup Upper \cup Digit \cup {".", "-", "_"}

\* re.compile(r'^[a-zA-Z0-9.\-_]+$').match(s): one or more characters of
\* the class from the start, then the end of the string, where $ also
\* matches just before a newline that ends the string.
NameMatch(s) ==
    \E n \in 1..Len(s) :
        /\ \A i \in 1..n : s[i] \in NameClass
        /\ \/ n = Len(s)
           \/ n = Len(s) - 1 /\ s[Len(s)] = "\n"

SSHError(m) == PyExc("SSHError", m)

check_server(server) ==
    IF ~NameMatch(server.v) THEN SSHError(<<"Server name contains illegal symbols">>) ELSE PyNone

check_login(login) ==
    IF ~NameMatch(login.v) THEN SSHError(<<"User login contains illegal symbols">>) ELSE PyNone

\* the file system the constructor looks at
Home == <<"/home/u">>

FsFiles == {<<"cfg">>, Home \o <<"/", "cfg">>, <<"key">>}

FsDirs == {Home, <<"dir">>}

\* os.path.expanduser: a leading "~" alone or before "/" becomes $HOME
expanduser(p) ==
    IF Len(p) >= 1 /\ p[1] = "~" /\ (Len(p) = 1 \/ p[2] = "/")
    THEN Home \o Tail(p)
    ELSE p

isfile(p) == p \in FsFiles

\* The object __init__ leaves behind, or the exception it raises.
SSHConnection(server, login, port, configfile, identity_file, ssh_agent_socket, timeout) ==
    IF IsExc(b(server)) THEN b(server)
    ELSE IF IsExc(check_server(server)) THEN check_server(server)
    ELSE IF Truthy(login) /\ IsExc(check_login(login)) THEN check_login(login)
    ELSE IF Truthy(configfile) /\ ~isfile(expanduser(configfile.v))
         THEN SSHError(<<"Config file ">> \o expanduser(configfile.v) \o <<" is not found">>)
    ELSE IF Truthy(identity_file) /\ ~isfile(expanduser(identity_file.v))
         THEN SSHError(<<"Key file ">> \o expanduser(identity_file.v) \o <<" is not found">>)
    ELSE [t |-> "SSHConnection",
          server |-> b(server),
          port |-> port,
          timeout |-> timeout,
          login |-> IF Truthy(login) THEN b(login) ELSE PyNone,
          configfile |-> IF Truthy(configfile) THEN [configfile EXCEPT !.v = expanduser(@)] ELSE PyNone,
          identity_file |-> IF Truthy(identity_file) THEN [identity_file EXCEPT !.v = expanduser(@)] ELSE PyNone,
          ssh_agent_socket |-> ssh_agent_socket]

-----------------------------------------------------------------------------
(* state shared by the specifications *)

NoRet == [kind |-> "pending"]

Return(v) == [kind |-> "return", value |-> v]

Raise(e) == [kind |-> "raise", exc |-> e]

NoFrame == [t |-> "none"]

NoTmp == [state |-> "none", rmtree |-> 0]

ProcIdle ==
    /\ alarm = "off"
    /\ fired = 0
    /\ handler = "SIG_DFL"
    /\ children = <<>>
    /\ tmp = NoTmp
    /\ scp_pc = "idle" /\ scp_f = NoFrame
    /\ gst_pc = "idle" /\ gst_f = NoFrame
    /\ run_pc = "idle" /\ run_f = NoFrame
    /\ due = 0
    /\ threads = <<>>

\* strings of at most n symbols over the alphabet cs
Strings(cs, n) == UNION {[1..k -> cs] : k \in 0..n}

-----------------------------------------------------------------------------
(* Constructing a connection *)

MaxName == 2

NameChars == {"a", "-", ";", "\n"}

Names == Strings(NameChars, MaxName)

CtorPaths == {<<"cfg">>, <<"~", "/", "cfg">>, <<"~">>, <<"nope">>, <<"~", "/", "nope">>, <<"dir">>}

OptPath == {PyNone} \cup {Lit(p) : p \in CtorPaths}

InitCtor ==
    /\ py \in {2, 3}
    /\ \E server \in Names, login \in Names, hasLogin \in BOOLEAN :
         \E cf \in OptPath, idf \in {PyNone, Lit(<<"key">>), Lit(<<"nope">>)} :
            op = [name |-> "__init__",
                  server |-> Lit(server),
                  login |-> IF hasLogin THEN Lit(login) ELSE PyNone,
                  port |-> PyNone,
                  configfile |-> cf,
                  identity_file |-> idf,
                  ssh_agent_socket |-> PyNone,
                  timeout |-> PyInt(60)]
    /\ conn = PyNone
    /\ ret = NoRet
    /\ ProcIdle

Construct ==
    /\ op.name = "__init__"
    /\ ret = NoRet
    /\ LET c == SSHConnection(op.server, op.login, op.port, op.configfile,
                              op.identity_file, op.ssh_agent_socket, op.timeout)
       IN  IF IsExc(c)
           THEN ret' = Raise(c) /\ conn' = conn
           ELSE ret' = Return(PyNone) /\ conn' = c
    /\ UNCHANGED <<py, op, procvars>>

NextCtor == Construct

SpecCtor == InitCtor /\ [][NextCtor]_vars

AllIn(s, cs) == \A i \in 1..Len(s) : s[i] \in cs

\* C6 (as claimed): construction fails with a validation error whenever the
\* host or a supplied login has a character outside [A-Za-z0-9._-] at any
\* position (a trailing newline included) or a supplied config or identity
\* file is no file after ~ expansion; otherwise it succeeds and spawns no
\* process.
C6_ValidationIff ==
    (op.name = "__init__" /\ ret # NoRet) =>
        LET bad == \/ ~AllIn(op.server.v, NameClass)
                   \/ op.server.v = <<>>
                   \/ Truthy(op.login) /\ ~AllIn(op.login.v, NameClass)
                   \/ Truthy(op.configfile) /\ expanduser(op.configfile.v) \notin FsFiles
                   \/ Truthy(op.identity_file) /\ expanduser(op.identity_file.v) \notin FsFiles
        IN  /\ bad => (ret.kind = "raise" /\ ret.exc.cls = "SSHError" /\ conn = PyNone)
            /\ ~bad => (ret.kind = "return" /\ conn.t = "SSHConnection")
            /\ children = <<>>

-----------------------------------------------------------------------------
(* The command builders *)

RECURSIVE Decimal(_)
Decimal(n) ==
    IF n < 0 THEN <<"-">> \o Decimal(0 - n)
    ELSE IF n < 10 THEN <<CHOOSE d \in Digit : d = ToString(n)>>
    ELSE Decimal(n \div 10) \o Decimal(n % 10)

\* the characters "%s" puts in the result for x
FormatS(x) ==
    CASE x.t = "text" -> x.v
      [] x.t = "bytes" -> IF py = 3 THEN <<"b'">> \o x.v \o <<"'">> ELSE x.v
      [] x.t = "int" -> Decimal(x.n)
      [] OTHER -> <<"None">>

\* str(x)
Str(x) == Lit(FormatS(x))

ValueError(m) == PyExc("ValueError", <<m>>)

\* ssh_command with the port given scp's flag -P
ssh_command_capital_P(self, interpreter, forward_ssh_agent) ==
    IF IsExc(b(interpreter)) THEN b(interpreter)
    ELSE b_list(PyList(
            <<Lit(<<"/usr/bin/ssh">>)>>
            \o (IF Truthy(self.login) THEN <<Lit(<<"-l">>), self.login>> ELSE <<>>)
            \o (IF Truthy(self.configfile) THEN <<Lit(<<"-F">>), self.configfile>> ELSE <<>>)
            \o (IF Truthy(self.identity_file) THEN <<Lit(<<"-i">>), self.identity_file>> ELSE <<>>)
            \o (IF forward_ssh_agent THEN <<Lit(<<"-A">>)>> ELSE <<>>)
            \o (IF Truthy(self.port) THEN <<Lit(<<"-P">>), Str(self.port)>> ELSE <<>>)
            \o <<self.server>>
            \o <<b(interpreter)>>))

ssh_command(self, interpreter, forward_ssh_agent) ==
    IF IsExc(b(interpreter)) THEN b(interpreter)
    ELSE b_list(PyList(
            <<Lit(<<"/usr/bin/ssh">>)>>
            \o (IF Truthy(self.login) THEN <<Lit(<<"-l">>), self.login>> ELSE <<>>)
            \o (IF Truthy(self.configfile) THEN <<Lit(<<"-F">>), self.configfile>> ELSE <<>>)
            \o (IF Truthy(self.identity_file) THEN <<Lit(<<"-i">>), self.identity_file>> ELSE <<>>)
            \o (IF forward_ssh_agent THEN <<Lit(<<"-A">>)>> ELSE <<>>)
            \o (IF Truthy(self.port) THEN <<Lit(<<"-p">>), Str(self.port)>> ELSE <<>>)
            \o <<self.server>>
            \o <<b(interpreter)>>))

scp_remotename(self) ==
    IF Truthy(self.login)
    THEN Lit(FormatS(u(self.login)) \o <<"@">> \o FormatS(u(self.server)))
    ELSE self.server

scp_command(self, files, target) ==
    LET cmd == <<Lit(<<"/usr/bin/scp">>), Lit(<<"-q">>), Lit(<<"-r">>)>>
               \o (IF Truthy(self.configfile) THEN <<Lit(<<"-F">>), self.configfile>> ELSE <<>>)
               \o (IF Truthy(self.identity_file) THEN <<Lit(<<"-i">>), self.identity_file>> ELSE <<>>)
               \o (IF Truthy(self.port) THEN <<Lit(<<"-P">>), self.port>> ELSE <<>>)
        bfiles == b_list(files)
    IN  IF IsExc(bfiles) THEN bfiles
        ELSE IF IsString(bfiles)
             THEN ValueError("\"files\" argument have to be iterable (list or tuple)")
        ELSE IF Len(bfiles.v) < 1
             THEN ValueError("You should name at least one file to copy")
        ELSE b_list(PyList(cmd \o bfiles.v
                           \o <<Lit(FormatS(scp_remotename(self)) \o <<":">> \o FormatS(target))>>))

\* the connections the constructor builds from valid arguments
CmdConns ==
    LET built == {SSHConnection(Lit(<<"h", "1">>), login, port, cf, idf, PyNone, PyInt(60)) :
                    login \in {PyNone, Lit(<<"r">>)},
                    port \in {PyNone, PyInt(22), Lit(<<"2", "2">>)},
                    cf \in {PyNone, Lit(<<"cfg">>), Lit(<<"~", "/", "cfg">>)},
                    idf \in {PyNone, Lit(<<"key">>)}}
    IN  {c \in built : ~IsExc(c)}

MaxFiles == 2

FileNames == {<<"a">>, <<"/", "b">>}

FileLists == {PyList([i \in 1..Len(fs) |-> Lit(fs[i])]) : fs \in Strings(FileNames, MaxFiles)}

ScalarFiles == {Lit(<<>>), Lit(<<"a">>), Lit(<<"/", "b">>)}

Targets == {<<"/", "t">>, <<"U+00E9">>}

InitCmd ==
    /\ py \in {2, 3}
    /\ conn \in CmdConns
    /\ op = [name |-> "none"]
    /\ ret = NoRet
    /\ ProcIdle

Finish(x) == IF IsExc(x) THEN Raise(x) ELSE Return(x)

CallSshCommand ==
    /\ op.name = "none"
    /\ \E interpreter \in {<<"/bin/bash">>, <<"/usr/bin/python">>}, fwd \in BOOLEAN :
         /\ op' = [name |-> "ssh_command", interpreter |-> Lit(interpreter), forward_ssh_agent |-> fwd]
         /\ ret' = Finish(ssh_command(conn, Lit(interpreter), fwd))
    /\ UNCHANGED <<py, conn, procvars>>

CallScpCommand ==
    /\ op.name = "none"
    /\ \E files \in FileLists \cup ScalarFiles, target \in Targets :
         /\ op' = [name |-> "scp_command", files |-> files, target |-> Lit(target)]
         /\ ret' = Finish(scp_command(conn, files, Lit(target)))
    /\ UNCHANGED <<py, conn, procvars>>

NextCmd == CallSshCommand \/ CallScpCommand

SpecCmd == InitCmd /\ [][NextCmd]_vars

\* how the claims spell a port number
PortSpelling(p) == IF p = PyInt(22) THEN <<"2", "2">> ELSE p.v

\* an argument vector of byte strings
Argv(words) == PyList([i \in 1..Len(words) |-> PyBytes(Encode(words[i]))])

Flag(param, name, value) == IF param # PyNone THEN <<<<name>>, value>> ELSE <<>>

\* C7: ssh_command returns exactly [ssh, -l login?, -F configfile?,
\* -i identityfile?, -A?, -p port?, host, interpreter]: each flag is there
\* exactly when its parameter is set, in that order, host and interpreter last.
C7_SshArgv ==
    op.name = "ssh_command" =>
        ret = Return(Argv(
            <<<<"/usr/bin/ssh">>>>
            \o Flag(conn.login, "-l", IF conn.login = PyNone THEN <<>> ELSE conn.login.v)
            \o Flag(conn.configfile, "-F", IF conn.configfile = PyNone THEN <<>> ELSE conn.configfile.v)
            \o Flag(conn.identity_file, "-i", IF conn.identity_file = PyNone THEN <<>> ELSE conn.identity_file.v)
            \o (IF op.forward_ssh_agent THEN <<<<"-A">>>> ELSE <<>>)
            \o Flag(conn.port, "-p", IF conn.port = PyNone THEN <<>> ELSE PortSpelling(conn.port))
            \o <<conn.server.v, op.interpreter.v>>))

\* C7 witness: a call on a connection with login, config file, identity
\* file and port set and agent forwarding on has returned its argv.
C7_Witness ==
    /\ op.name = "ssh_command" /\ ret.kind = "return"
    /\ conn.login # PyNone /\ conn.configfile # PyNone /\ conn.identity_file # PyNone
    /\ conn.port = PyInt(22) /\ op.forward_ssh_agent
    /\ Len(ret.value.v) = 12

\* C8 (as claimed): for a non-empty sequence of sources scp_command returns
\* exactly [scp, -q, -r, -F configfile?, -i identityfile?, -P port?,
\* source..., destination], the destination being login@host:target, or
\* host:target with the host spelled verbatim when no login is set.
C8_ScpArgv ==
    (op.name = "scp_command" /\ op.files.t = "list" /\ Len(op.files.v) >= 1) =>
        ret = Return(Argv(
            <<<<"/usr/bin/scp">>, <<"-q">>, <<"-r">>>>
            \o Flag(conn.configfile, "-F", IF conn.configfile = PyNone THEN <<>> ELSE conn.configfile.v)
            \o Flag(conn.identity_file, "-i", IF conn.identity_file = PyNone THEN <<>> ELSE conn.identity_file.v)
            \o Flag(conn.port, "-P", IF conn.port = PyNone THEN <<>> ELSE PortSpelling(conn.port))
            \o [i \in 1..Len(op.files.v) |-> op.files.v[i].v]
            \o << (IF conn.login = PyNone THEN <<>> ELSE conn.login.v \o <<"@">>)
                  \o conn.server.v \o <<":">> \o op.target.v >>))

\* C9 (as claimed): scp_command called with zero sources, or with a scalar
\* string in place of a sequence, fails with a ValueError and returns no argv.
C9_RejectsScalarAndEmpty ==
    (op.name = "scp_command" /\ (IsString(op.files) \/ Len(op.files.v) = 0)) =>
        (ret.kind = "raise" /\ ret.exc.cls = "ValueError")

-----------------------------------------------------------------------------
(* Child processes, signals and exceptions *)

Whitespace == {" ", "\t", "\n", "\r", "0x0B", "0x0C"}

RECURSIVE lstrip(_)
lstrip(s) == IF s # <<>> /\ Head(s) \in Whitespace THEN lstrip(Tail(s)) ELSE s

RECURSIVE rstrip(_)
rstrip(s) ==
    IF s # <<>> /\ s[Len(s)] \in Whitespace THEN rstrip(SubSeq(s, 1, Len(s) - 1)) ELSE s

\* bytes.strip()
strip(x) == [x EXCEPT !.v = rstrip(lstrip(@))]

SSHResult(command, stdout, stderr, returncode) ==
    [t |-> "SSHResult", command |-> command, stdout |-> stdout,
     stderr |-> stderr, returncode |-> returncode]

IOError(m) == PyExc("IOError", m)

\* what _timeout_handler raises
TimeoutError == IOError(<<"SSH connect timeout">>)

KeyboardInterrupt == PyExc("KeyboardInterrupt", <<>>)

\* subprocess.Popen(argv, stdin=PIPE, stdout=PIPE, stderr=PIPE)
Popen(prog) == [prog |-> prog, stdin |-> PyNone, state |-> "running", rc |-> PyNone]

\* signal.alarm(seconds): zero cancels the timer, anything else (re)arms it
signal_alarm(seconds) == IF seconds.n = 0 THEN "off" ELSE "armed"

\* os.kill(pid, SIGTERM): the signal is sent and os.kill returns; the child
\* is neither waited for nor reaped.
os_kill(child) == IF child.state = "running" THEN [child EXCEPT !.state = "signalled"] ELSE child

\* an exception leaves every active frame (no frame of the module catches
\* anything but the IOError of its own communicate) and reaches the caller
Propagate(e) ==
    /\ ret' = Raise(e)
    /\ run_pc' = IF run_pc = "idle" THEN "idle" ELSE "done"
    /\ gst_pc' = IF gst_pc = "idle" THEN "idle" ELSE "done"
    /\ scp_pc' = IF scp_pc = "idle" THEN "idle" ELSE "done"

Active(pc) == pc \notin {"idle", "done"}

-----------------------------------------------------------------------------
(* SSHConnection.run *)

RunFrame(caller, command) ==
    [caller |-> caller, command |-> command, interpreter |-> Lit(<<"/bin/bash">>),
     forward_ssh_agent |-> FALSE, pipe |-> 0, out |-> PyNone, err |-> PyNone, exc |-> PyNone]

\* lines 163-166: build the argv and spawn ssh
run_spawn ==
    /\ run_pc = "spawn"
    /\ LET argv == ssh_command(conn, run_f.interpreter, run_f.forward_ssh_agent)
       IN  IF IsExc(argv)
           THEN Propagate(argv) /\ UNCHANGED <<children, run_f>>
           ELSE /\ children' = Append(children, Popen("ssh"))
                /\ run_f' = [run_f EXCEPT !.pipe = Len(children) + 1]
                /\ run_pc' = "arm"
                /\ UNCHANGED <<ret, gst_pc, scp_pc>>
    /\ UNCHANGED <<threads, due, py, op, conn, alarm, fired, handler, tmp, scp_f, gst_f>>

\* lines 167-173: install the handler, arm the alarm, out = err = b('')
run_arm ==
    /\ run_pc = "arm"
    /\ handler' = "_timeout_handler"
    /\ alarm' = signal_alarm(conn.timeout)
    /\ due' = conn.timeout.n
    /\ run_f' = [run_f EXCEPT !.out = b(Lit(<<>>)), !.err = b(Lit(<<>>))]
    /\ run_pc' = "armed"
    /\ UNCHANGED <<threads, py, op, conn, ret, fired, children, tmp, scp_pc, scp_f, gst_pc, gst_f>>

\* lines 174-175: enter the try, convert the command, hand it to communicate
run_communicate ==
    /\ run_pc = "armed"
    /\ IF IsExc(b(run_f.command))
       THEN Propagate(b(run_f.command)) /\ UNCHANGED children
       ELSE /\ children' = [children EXCEPT ![run_f.pipe].stdin = b(run_f.command)]
            /\ run_pc' = "communicate"
            /\ UNCHANGED <<ret, gst_pc, scp_pc>>
    /\ UNCHANGED <<threads, due, py, op, conn, alarm, fired, handler, tmp, scp_f, gst_f, run_f>>

\* line 175: the child exits and communicate returns what it wrote
run_child_exits(outs, codes) ==
    /\ run_pc = "communicate"
    /\ children[run_f.pipe].state = "running"
    /\ \E out \in outs, err \in outs, rc \in codes :
         /\ children' = [children EXCEPT ![run_f.pipe].state = "exited",
                                         ![run_f.pipe].rc = PyInt(rc)]
         /\ run_f' = [run_f EXCEPT !.out = PyBytes(out), !.err = PyBytes(err)]
    /\ run_pc' = "disarm"
    /\ UNCHANGED <<threads, due, py, op, conn, ret, alarm, fired, handler, tmp, scp_pc, scp_f, gst_pc, gst_f>>

\* lines 175-176: communicate raises IOError for a reason of its own
run_io_error ==
    /\ run_pc = "communicate"
    /\ run_f' = [run_f EXCEPT !.exc = IOError(<<"[Errno 5] Input/output error">>)]
    /\ run_pc' = "kill"
    /\ UNCHANGED <<threads, due, py, op, conn, ret, alarm, fired, handler, children, tmp, scp_pc, scp_f, gst_pc, gst_f>>

\* line 175: an exception that is no IOError is raised in communicate
\* (SIGINT raising KeyboardInterrupt): no except clause of run matches it
run_interrupted ==
    /\ run_pc = "communicate"
    /\ Propagate(KeyboardInterrupt)
    /\ UNCHANGED <<threads, due, py, op, conn, alarm, fired, handler, children, tmp, scp_f, gst_f, run_f>>

\* line 178
run_kill ==
    /\ run_pc = "kill"
    /\ children' = [children EXCEPT ![run_f.pipe] = os_kill(@)]
    /\ run_pc' = "exc_disarm"
    /\ UNCHANGED <<threads, due, py, op, conn, ret, alarm, fired, handler, tmp, scp_pc, scp_f, gst_pc, gst_f, run_f>>

\* line 179
run_exc_disarm ==
    /\ run_pc = "exc_disarm"
    /\ alarm' = signal_alarm(PyInt(0))
    /\ due' = 0
    /\ run_pc' = "exc_raise"
    /\ UNCHANGED <<threads, py, op, conn, ret, fired, handler, children, tmp, scp_pc, scp_f, gst_pc, gst_f, run_f>>

\* line 180
run_exc_raise ==
    /\ run_pc = "exc_raise"
    /\ Propagate(SSHError(run_f.exc.msg))
    /\ UNCHANGED <<threads, due, py, op, conn, alarm, fired, handler, children, tmp, scp_f, gst_f, run_f>>

\* line 182
run_disarm ==
    /\ run_pc = "disarm"
    /\ alarm' = signal_alarm(PyInt(0))
    /\ due' = 0
    /\ run_pc' = "check"
    /\ UNCHANGED <<threads, py, op, conn, ret, fired, handler, children, tmp, scp_pc, scp_f, gst_pc, gst_f, run_f>>

\* run_result treating every nonzero exit code as a failure
run_result_nonzero_raises(command, out, err, returncode) ==
    IF returncode # PyInt(0)
    THEN SSHError(strip(err).v)
    ELSE SSHResult(command, strip(out), strip(err), returncode)

\* what lines 183-186 make of the exit code and the captured streams
run_result(command, out, err, returncode) ==
    IF returncode = PyInt(255)
    THEN SSHError(strip(err).v)
    ELSE SSHResult(command, strip(out), strip(err), returncode)

\* lines 183-186: raise on 255, else hand the result to the caller
run_check ==
    /\ run_pc = "check"
    /\ LET r == run_result(run_f.command, run_f.out, run_f.err, children[run_f.pipe].rc)
       IN  IF IsExc(r)
           THEN Propagate(r) /\ UNCHANGED <<run_f, gst_f, scp_f>>
           ELSE CASE run_f.caller = "top" ->
                       /\ ret' = Return(r)
                       /\ run_pc' = "done"
                       /\ UNCHANGED <<run_f, gst_pc, gst_f, scp_pc, scp_f>>
                  [] run_f.caller = "gst" ->
                       /\ gst_f' = [gst_f EXCEPT !.result = r]
                       /\ gst_pc' = "tested"
                       /\ run_pc' = "idle" /\ run_f' = NoFrame
                       /\ UNCHANGED <<ret, scp_pc, scp_f>>
                  [] OTHER ->
                       /\ scp_f' = [scp_f EXCEPT !.result = r]
                       /\ scp_pc' = IF run_f.caller = "chmod" THEN "chmod_ret" ELSE "chown_ret"
                       /\ run_pc' = "idle" /\ run_f' = NoFrame
                       /\ UNCHANGED <<ret, gst_pc, gst_f>>
    /\ UNCHANGED <<threads, due, py, op, conn, alarm, fired, handler, children, tmp>>

\* lines 385-387: SIGALRM is delivered while run is on the stack and
\* _timeout_handler raises IOError where the main thread is: inside
\* communicate the except clause of line 176 catches it, anywhere else
\* between arming and disarming nothing does.
run_alarm_fires ==
    /\ Active(run_pc)
    /\ alarm = "armed" /\ handler = "_timeout_handler"
    /\ alarm' = "off"
    /\ due' = 0
    /\ fired' = fired + 1
    /\ IF run_pc = "communicate"
       THEN /\ run_f' = [run_f EXCEPT !.exc = TimeoutError]
            /\ run_pc' = "kill"
            /\ UNCHANGED <<ret, gst_pc, scp_pc>>
       ELSE Propagate(TimeoutError) /\ UNCHANGED run_f
    /\ UNCHANGED <<threads, py, op, conn, handler, children, tmp, scp_f, gst_f>>

\* the operating system delivers SIGTERM and the signalled child ends
child_dies ==
    /\ \E i \in 1..Len(children) :
         /\ children[i].state = "signalled"
         /\ children' = [children EXCEPT ![i].state = "dead"]
    /\ UNCHANGED <<threads, due, py, op, conn, ret, alarm, fired, handler, tmp,
                   scp_pc, scp_f, gst_pc, gst_f, run_pc, run_f>>

-----------------------------------------------------------------------------
(* SSHConnection.get_scp_targets *)

\* os.path.basename: what follows the last "/"
RECURSIVE basename(_)
basename(p) ==
    IF p = <<>> \/ p[Len(p)] = "/" THEN <<>>
    ELSE basename(SubSeq(p, 1, Len(p) - 1)) \o <<p[Len(p)]>>

\* os.path.join(a, b) of posixpath
join(a, bb) ==
    IF bb # <<>> /\ Head(bb) = "/" THEN bb
    ELSE IF a = <<>> \/ a[Len(a)] = "/" THEN a \o bb
    ELSE a \o <<"/">> \o bb

\* os.path.join on Python strings: text and bytes do not mix
path_join(a, bb) ==
    IF a.t # bb.t THEN PyExc("TypeError", <<"Can't mix strings and bytes in path components">>)
    ELSE [a EXCEPT !.v = join(a.v, bb.v)]

\* literals of the model that are one symbol and hold only safe characters
SafeWords == {"chmod", "chown", "0644", "root:root", "whoami", "/tmp/tmpdir", "tmpfile"}

SafeChars == NameClass \cup {"@", "%", "+", "=", ":", ",", "/"} \cup SafeWords

RECURSIVE EscapeQuotes(_)
EscapeQuotes(s) ==
    IF s = <<>> THEN <<>>
    ELSE (IF Head(s) = "'" THEN <<"'", "\"", "'", "\"", "'">> ELSE <<Head(s)>>) \o EscapeQuotes(Tail(s))

\* pipes.quote
quote(x) ==
    IF x.v = <<>> THEN [x EXCEPT !.v = <<"'", "'">>]
    ELSE IF \A i \in 1..Len(x.v) : x.v[i] \in SafeChars THEN x
    ELSE [x EXCEPT !.v = <<"'">> \o EscapeQuotes(x.v) \o <<"'">>]

RECURSIVE JoinSpace(_)
JoinSpace(ws) ==
    IF ws = <<>> THEN <<>>
    ELSE IF Len(ws) = 1 THEN ws[1]
    ELSE ws[1] \o <<" ">> \o JoinSpace(Tail(ws))

b_quote(cmd_chunks) ==
    LET quoted == [i \in 1..Len(cmd_chunks) |->
                      IF IsExc(u(cmd_chunks[i])) THEN u(cmd_chunks[i])
                      ELSE b(quote(u(cmd_chunks[i])))]
    IN  IF FirstExc(quoted) # PyNone THEN FirstExc(quoted)
        ELSE PyBytes(JoinSpace([i \in 1..Len(quoted) |-> quoted[i].v]))

\* line 314: the command handed to run
test_d_command(target) ==
    IF IsExc(u(target)) THEN u(target)
    ELSE b(Lit(<<"test -d ">> \o FormatS(quote(u(target)))))

\* scp_targets joining the whole file name, not its base name, to the target
scp_targets_no_basename(filenames, target, result) ==
    IF result.returncode = PyInt(0)
    THEN LET ret_ == [i \in 1..Len(filenames.v) |-> path_join(target, filenames.v[i])]
         IN  IF FirstExc(ret_) # PyNone THEN FirstExc(ret_) ELSE PyList(ret_)
    ELSE PyList(<<target>>)

\* lines 315-322: the list returned for the result of "test -d"
scp_targets(filenames, target, result) ==
    IF result.returncode = PyInt(0)
    THEN LET ret_ == [i \in 1..Len(filenames.v) |->
                         path_join(target, [filenames.v[i] EXCEPT !.v = basename(@)])]
         IN  IF FirstExc(ret_) # PyNone THEN FirstExc(ret_) ELSE PyList(ret_)
    ELSE PyList(<<target>>)

GstFrame(caller, filenames, target) ==
    [caller |-> caller, filenames |-> filenames, target |-> target, result |-> PyNone]

\* line 314: call run
gst_call ==
    /\ gst_pc = "start"
    /\ LET cmd == test_d_command(gst_f.target)
       IN  IF IsExc(cmd)
           THEN Propagate(cmd) /\ UNCHANGED run_f
           ELSE /\ run_f' = RunFrame("gst", cmd)
                /\ run_pc' = "spawn"
                /\ gst_pc' = "wait"
                /\ UNCHANGED <<ret, scp_pc>>
    /\ UNCHANGED <<threads, due, py, op, conn, alarm, fired, handler, children, tmp, scp_f, gst_f>>

\* lines 315-322
gst_return ==
    /\ gst_pc = "tested"
    /\ LET r == scp_targets(gst_f.filenames, gst_f.target, gst_f.result)
       IN  IF IsExc(r)
           THEN Propagate(r) /\ UNCHANGED <<gst_f, scp_f>>
           ELSE IF gst_f.caller = "top"
                THEN /\ ret' = Return(r)
                     /\ gst_pc' = "done"
                     /\ UNCHANGED <<gst_f, scp_pc, scp_f, run_pc>>
                ELSE /\ scp_f' = [scp_f EXCEPT !.targets = r]
                     /\ scp_pc' = "targets_ret"
                     /\ gst_pc' = "idle" /\ gst_f' = NoFrame
                     /\ UNCHANGED <<ret, run_pc>>
    /\ UNCHANGED <<threads, due, py, op, conn, alarm, fired, handler, children, tmp, run_f>>

-----------------------------------------------------------------------------
(* SSHConnection.scp *)

TmpDir == <<"/tmp/tmpdir">>

\* lines 276-295: the file name each element of files is sent under; a
\* file-like object is written below the temporary directory, under the
\* base name of its name attribute or under a fresh name of mkstemp
tmpname(file_obj, i) ==
    IF file_obj.name # PyNone
    THEN [file_obj.name EXCEPT !.v = join(TmpDir, basename(@))]
    ELSE Lit(join(TmpDir, <<"tmpfile", ToString(i)>>))

convert_files_to_filenames(files) ==
    [filenames |-> PyList([i \in 1..Len(files.v) |->
                      IF IsString(files.v[i]) THEN files.v[i] ELSE tmpname(files.v[i], i)]),
     tmpdir |-> IF \E i \in 1..Len(files.v) : ~IsString(files.v[i]) THEN Lit(TmpDir) ELSE PyNone]

\* lines 215-217
cleanup_tmp_dir(tmpdir, t) ==
    IF Truthy(tmpdir) THEN [state |-> "removed", rmtree |-> t.rmtree + 1] ELSE t

ScpFrame(files, target, mode, owner) ==
    [files |-> files, target |-> target, mode |-> mode, owner |-> owner,
     filenames |-> PyNone, tmpdir |-> PyNone, pipe |-> 0, err |-> PyNone,
     exc |-> PyNone, targets |-> PyNone, result |-> PyNone]

\* line 213
scp_convert ==
    /\ scp_pc = "convert"
    /\ LET c == convert_files_to_filenames(scp_f.files)
       IN  /\ scp_f' = [scp_f EXCEPT !.filenames = c.filenames, !.tmpdir = c.tmpdir]
           /\ tmp' = IF Truthy(c.tmpdir) THEN [tmp EXCEPT !.state = "exists"] ELSE tmp
    /\ scp_pc' = "spawn"
    /\ UNCHANGED <<threads, due, py, op, conn, ret, alarm, fired, handler, children, gst_pc, gst_f, run_pc, run_f>>

\* lines 219-222: build the argv and spawn scp
scp_spawn ==
    /\ scp_pc = "spawn"
    /\ LET argv == scp_command(conn, scp_f.filenames, scp_f.target)
       IN  IF IsExc(argv)
           THEN Propagate(argv) /\ UNCHANGED <<children, scp_f>>
           ELSE /\ children' = Append(children, Popen("scp"))
                /\ scp_f' = [scp_f EXCEPT !.pipe = Len(children) + 1]
                /\ scp_pc' = "arm"
                /\ UNCHANGED <<ret, gst_pc, run_pc>>
    /\ UNCHANGED <<threads, due, py, op, conn, alarm, fired, handler, tmp, gst_f, run_f>>

\* lines 223-228
scp_arm ==
    /\ scp_pc = "arm"
    /\ handler' = "_timeout_handler"
    /\ alarm' = signal_alarm(conn.timeout)
    /\ due' = conn.timeout.n
    /\ scp_f' = [scp_f EXCEPT !.err = b(Lit(<<>>))]
    /\ scp_pc' = "armed"
    /\ UNCHANGED <<threads, py, op, conn, ret, fired, children, tmp, gst_pc, gst_f, run_pc, run_f>>

\* lines 229-230: enter the try and block in communicate
scp_communicate ==
    /\ scp_pc = "armed"
    /\ scp_pc' = "communicate"
    /\ UNCHANGED <<threads, due, py, op, conn, ret, alarm, fired, handler, children, tmp, scp_f, gst_pc, gst_f, run_pc, run_f>>

\* line 230: the child exits and communicate returns its stderr
scp_child_exits(outs, codes) ==
    /\ scp_pc = "communicate"
    /\ children[scp_f.pipe].state = "running"
    /\ \E err \in outs, rc \in codes :
         /\ children' = [children EXCEPT ![scp_f.pipe].state = "exited",
                                         ![scp_f.pipe].rc = PyInt(rc)]
         /\ scp_f' = [scp_f EXCEPT !.err = PyBytes(err)]
    /\ scp_pc' = "disarm"
    /\ UNCHANGED <<threads, due, py, op, conn, ret, alarm, fired, handler, tmp, gst_pc, gst_f, run_pc, run_f>>

\* lines 230-231
scp_io_error ==
    /\ scp_pc = "communicate"
    /\ scp_f' = [scp_f EXCEPT !.exc = IOError(<<"[Errno 5] Input/output error">>)]
    /\ scp_pc' = "kill"
    /\ UNCHANGED <<threads, due, py, op, conn, ret, alarm, fired, handler, children, tmp, gst_pc, gst_f, run_pc, run_f>>

\* line 230: an exception that is no IOError
scp_interrupted ==
    /\ scp_pc = "communicate"
    /\ Propagate(KeyboardInterrupt)
    /\ UNCHANGED <<threads, due, py, op, conn, alarm, fired, handler, children, tmp, scp_f, gst_f, run_f>>

\* line 233
scp_kill ==
    /\ scp_pc = "kill"
    /\ children' = [children EXCEPT ![scp_f.pipe] = os_kill(@)]
    /\ scp_pc' = "exc_disarm"
    /\ UNCHANGED <<threads, due, py, op, conn, ret, alarm, fired, handler, tmp, scp_f, gst_pc, gst_f, run_pc, run_f>>

\* line 234
scp_exc_disarm ==
    /\ scp_pc = "exc_disarm"
    /\ alarm' = signal_alarm(PyInt(0))
    /\ due' = 0
    /\ scp_pc' = "exc_raise"
    /\ UNCHANGED <<threads, py, op, conn, ret, fired, handler, children, tmp, scp_f, gst_pc, gst_f, run_pc, run_f>>

\* lines 235-236
scp_exc_raise ==
    /\ scp_pc = "exc_raise"
    /\ tmp' = cleanup_tmp_dir(scp_f.tmpdir, tmp)
    /\ Propagate(SSHError(scp_f.exc.msg))
    /\ UNCHANGED <<threads, due, py, op, conn, alarm, fired, handler, children, scp_f, gst_f, run_f>>

\* line 237
scp_disarm ==
    /\ scp_pc = "disarm"
    /\ alarm' = signal_alarm(PyInt(0))
    /\ due' = 0
    /\ scp_pc' = "check"
    /\ UNCHANGED <<threads, py, op, conn, ret, fired, handler, children, tmp, scp_f, gst_pc, gst_f, run_pc, run_f>>

\* scp_transfer_failed looking only for the exit code ssh reserves
scp_transfer_failed_only_255(returncode) == returncode = PyInt(255)

\* line 239: if returncode != 0
scp_transfer_failed(returncode) == returncode # PyInt(0)

\* lines 249 and 256: if result.returncode
remote_failed(result) == Truthy(result.returncode)

\* where scp goes once targets are known or a remote command has succeeded
AfterTargets(f) == IF Truthy(f.mode) THEN "chmod" ELSE IF Truthy(f.owner) THEN "chown" ELSE "cleanup"

\* lines 238-244: a nonzero exit code removes the directory and raises;
\* otherwise go on to the remote commands, if mode or owner ask for any
scp_check ==
    /\ scp_pc = "check"
    /\ IF scp_transfer_failed(children[scp_f.pipe].rc)
       THEN /\ tmp' = cleanup_tmp_dir(scp_f.tmpdir, tmp)
            /\ Propagate(SSHError(strip(scp_f.err).v))
            /\ UNCHANGED <<gst_f>>
       ELSE IF Truthy(scp_f.mode) \/ Truthy(scp_f.owner)
            THEN /\ gst_f' = GstFrame("scp", scp_f.filenames, scp_f.target)
                 /\ gst_pc' = "start"
                 /\ scp_pc' = "wait_targets"
                 /\ UNCHANGED <<ret, tmp, run_pc>>
            ELSE /\ scp_pc' = "cleanup"
                 /\ UNCHANGED <<ret, tmp, gst_pc, gst_f, run_pc>>
    /\ UNCHANGED <<threads, due, py, op, conn, alarm, fired, handler, children, scp_f, run_f>>

\* line 244 returned
scp_targets_ret ==
    /\ scp_pc = "targets_ret"
    /\ scp_pc' = AfterTargets(scp_f)
    /\ UNCHANGED <<threads, due, py, op, conn, ret, alarm, fired, handler, children, tmp, scp_f, gst_pc, gst_f, run_pc, run_f>>

\* lines 246-248 and 253-255: quote the command and call run
scp_remote(what, arg) ==
    /\ scp_pc = what
    /\ LET cmd == b_quote(<<Lit(<<what>>), arg>> \o scp_f.targets.v)
       IN  IF IsExc(cmd)
           THEN Propagate(cmd) /\ UNCHANGED run_f
           ELSE /\ run_f' = RunFrame(what, cmd)
                /\ run_pc' = "spawn"
                /\ scp_pc' = "wait_" \o what
                /\ UNCHANGED <<ret, gst_pc>>
    /\ UNCHANGED <<threads, due, py, op, conn, alarm, fired, handler, children, tmp, scp_f, gst_f>>

scp_chmod == scp_remote("chmod", scp_f.mode)

scp_chown == scp_remote("chown", scp_f.owner)

\* lines 249-251 and 256-258
scp_remote_ret(pc, next) ==
    /\ scp_pc = pc
    /\ IF remote_failed(scp_f.result)
       THEN /\ tmp' = cleanup_tmp_dir(scp_f.tmpdir, tmp)
            /\ Propagate(SSHError(strip(scp_f.result.stderr).v))
       ELSE /\ scp_pc' = next
            /\ UNCHANGED <<ret, tmp, gst_pc, run_pc>>
    /\ UNCHANGED <<threads, due, py, op, conn, alarm, fired, handler, children, scp_f, gst_f, run_f>>

scp_chmod_ret == scp_remote_ret("chmod_ret", IF Truthy(scp_f.owner) THEN "chown" ELSE "cleanup")

scp_chown_ret == scp_remote_ret("chown_ret", "cleanup")

\* line 259
scp_cleanup ==
    /\ scp_pc = "cleanup"
    /\ tmp' = cleanup_tmp_dir(scp_f.tmpdir, tmp)
    /\ ret' = Return(PyNone)
    /\ scp_pc' = "done"
    /\ UNCHANGED <<threads, due, py, op, conn, alarm, fired, handler, children, scp_f, gst_pc, gst_f, run_pc, run_f>>

\* lines 385-387: SIGALRM is delivered while scp itself is running
scp_alarm_fires ==
    /\ Active(scp_pc) /\ ~Active(run_pc) /\ ~Active(gst_pc)
    /\ alarm = "armed" /\ handler = "_timeout_handler"
    /\ alarm' = "off"
    /\ due' = 0
    /\ fired' = fired + 1
    /\ IF scp_pc = "communicate"
       THEN /\ scp_f' = [scp_f EXCEPT !.exc = TimeoutError]
            /\ scp_pc' = "kill"
            /\ UNCHANGED <<ret, gst_pc, run_pc>>
       ELSE Propagate(TimeoutError) /\ UNCHANGED scp_f
    /\ UNCHANGED <<threads, py, op, conn, handler, children, tmp, gst_f, run_f>>

-----------------------------------------------------------------------------
(* The calls a program makes on a connection *)

ExitCodes == {0, 1, 255}

OutChars == {"x", " ", "\n"}

MaxOut == 2

\* what a child may write: anything short for the child of a plain run,
\* one of two texts for the children of scp and get_scp_targets
Outputs == IF op.name = "run" THEN Strings(OutChars, MaxOut) ELSE {<<>>, <<" ", "x", "\n">>}

Timeouts == {PyInt(0), PyInt(1)}

\* connections the calls are made on
ProcConns ==
    LET built == {SSHConnection(Lit(<<"h", "1">>), Lit(<<"r">>), port, PyNone, PyNone, PyNone, t) :
                    port \in {PyNone, PyInt(22)}, t \in Timeouts}
    IN  {c \in built : ~IsExc(c)}

Init ==
    /\ py \in {2, 3}
    /\ conn \in ProcConns
    /\ op = [name |-> "none"]
    /\ ret = NoRet
    /\ ProcIdle

CallRun ==
    /\ op.name = "none"
    /\ \E command \in {<<"whoami">>, <<"U+00E9">>} :
         /\ op' = [name |-> "run", command |-> Lit(command)]
         /\ run_f' = RunFrame("top", Lit(command))
    /\ run_pc' = "spawn"
    /\ UNCHANGED <<threads, due, py, conn, ret, alarm, fired, handler, children, tmp, scp_pc, scp_f, gst_pc, gst_f>>

GstNames == {<<"f">>, <<"d", "/", "g">>, <<"d", "/">>}

GstTargets == {<<"/", "e">>, <<"/", "e", "/">>, <<"e", " ", "x">>}

CallGetScpTargets ==
    /\ op.name = "none"
    /\ \E fs \in Strings(GstNames, MaxFiles), target \in GstTargets :
         LET filenames == PyList([i \in 1..Len(fs) |-> Lit(fs[i])])
         IN  /\ op' = [name |-> "get_scp_targets", filenames |-> filenames, target |-> Lit(target)]
             /\ gst_f' = GstFrame("top", filenames, Lit(target))
    /\ gst_pc' = "start"
    /\ UNCHANGED <<threads, due, py, conn, ret, alarm, fired, handler, children, tmp, scp_pc, scp_f, run_pc, run_f>>

ScpSources == {Lit(<<"a">>), PyFile(PyNone), PyFile(Lit(<<"d", "/", "n">>))}

CallScp ==
    /\ op.name = "none"
    /\ \E files \in Strings(ScpSources, MaxFiles), target \in {<<"/", "e">>},
          mode \in {PyNone, Lit(<<"0644">>)}, owner \in {PyNone, Lit(<<"root:root">>)} :
         /\ op' = [name |-> "scp", files |-> PyList(files), target |-> Lit(target),
                   mode |-> mode, owner |-> owner]
         /\ scp_f' = ScpFrame(PyList(files), Lit(target), mode, owner)
    /\ scp_pc' = "convert"
    /\ UNCHANGED <<threads, due, py, conn, ret, alarm, fired, handler, children, tmp, gst_pc, gst_f, run_pc, run_f>>

Next ==
    \/ CallRun
    \/ CallGetScpTargets
    \/ CallScp
    \/ run_spawn
    \/ run_arm
    \/ run_communicate
    \/ run_child_exits(Outputs, ExitCodes)
    \/ run_io_error
    \/ run_interrupted
    \/ run_kill
    \/ run_exc_disarm
    \/ run_exc_raise
    \/ run_disarm
    \/ run_check
    \/ run_alarm_fires
    \/ child_dies
    \/ gst_call
    \/ gst_return
    \/ scp_convert
    \/ scp_spawn
    \/ scp_arm
    \/ scp_communicate
    \/ scp_child_exits(Outputs, ExitCodes)
    \/ scp_io_error
    \/ scp_interrupted
    \/ scp_kill
    \/ scp_exc_disarm
    \/ scp_exc_raise
    \/ scp_disarm
    \/ scp_check
    \/ scp_targets_ret
    \/ scp_chmod
    \/ scp_chmod_ret
    \/ scp_chown
    \/ scp_chown_ret
    \/ scp_cleanup
    \/ scp_alarm_fires

Spec == Init /\ [][Next]_vars

C3_Witness255 ==
    /\ op.name = "run" /\ ret.kind = "raise" /\ fired = 0
    /\ children # <<>> /\ children[1].rc = PyInt(255)
    /\ ret.exc.cls = "SSHError" /\ ret.exc.msg # run_f.err.v

-----------------------------------------------------------------------------
(* Claims about scp, the alarm and the children *)

\* the children whose standard input starts with the word w
RemoteChildren(w) ==
    {i \in 1..Len(children) : children[i].stdin # PyNone /\ children[i].stdin.v # <<>>
                              /\ Head(children[i].stdin.v) = w}

ScpChildren == {i \in 1..Len(children) : children[i].prog = "scp"}

\* C1 (as claimed): a call of scp that wrote a stream source into a
\* temporary directory has removed that directory exactly once when it
\* returns or raises, whatever the exit path.
C1_TmpDirRemovedOnce ==
    (op.name = "scp" /\ ret # NoRet /\ tmp.state # "none") =>
        (tmp.state = "removed" /\ tmp.rmtree = 1)

\* No exit path removes the directory twice.
TmpDirRemovedAtMostOnce == tmp.rmtree <= 1

\* C2 (as claimed): once a call of run or scp has returned or raised, the
\* alarm it armed is no longer armed.
C2_AlarmDisarmedAtExit ==
    (op.name \in {"run", "scp"} /\ ret # NoRet) => alarm = "off"

\* The pipe of the frame that caught the exception of communicate.
Caught == IF Active(run_pc) \/ run_pc = "done" THEN run_f ELSE scp_f

CaughtPc == IF Active(run_pc) \/ run_pc = "done" THEN run_pc ELSE scp_pc

\* When the deadline elapses in communicate, the child is sent SIGTERM
\* before the alarm is disarmed, and the alarm is disarmed before the error
\* is raised.
KillThenDisarmThenRaise ==
    /\ CaughtPc \in {"exc_disarm", "exc_raise"} => children[Caught.pipe].state # "running"
    /\ CaughtPc = "exc_raise" => alarm = "off"
    /\ (ret.kind = "raise" /\ ret.exc = SSHError(TimeoutError.msg)) =>
            (alarm = "off" /\ children[Caught.pipe].state \in {"signalled", "dead"})

\* No child of a call that failed on its deadline is running any more.
NoChildRunsAfterTimeout ==
    (ret.kind = "raise" /\ ret.exc = SSHError(TimeoutError.msg)) =>
        \A i \in 1..Len(children) : children[i].state \in {"exited", "dead"}

\* C4 (as claimed): when the deadline elapses while run or scp communicates
\* with the child, the child is terminated first, then the alarm is
\* disarmed, then the call fails with the timeout error, and no child the
\* call spawned is still running once the error is raised.
C4_TimeoutKillsChild == KillThenDisarmThenRaise /\ NoChildRunsAfterTimeout

C5_WitnessNonzero ==
    /\ op.name = "scp" /\ ret.kind = "raise" /\ fired = 0
    /\ \E i \in ScpChildren : children[i].rc = PyInt(1)
    /\ Len(scp_f.err.v) = 3 /\ Len(ret.exc.msg) = 1

\* x is the target t joined with what follows the last "/" of the file name f
IsJoined(x, t, f) ==
    \E k \in 0..Len(f) :
        /\ k = 0 \/ f[k] = "/"
        /\ \A j \in (k + 1)..Len(f) : f[j] # "/"
        /\ x = t \o (IF t[Len(t)] = "/" THEN <<>> ELSE <<"/">>) \o SubSeq(f, k + 1, Len(f))

\* C10: get_scp_targets runs "test -d <target>" remotely; when that exits
\* with code 0 it returns, in the order of filenames, the target joined with
\* the base name of each file name, and for any other exit code run returns
\* it gives the one-element list [target].
C10_TargetsByExitCode ==
    (op.name = "get_scp_targets" /\ ret # NoRet /\ fired = 0 /\ children # <<>>
        /\ children[1].state = "exited" /\ children[1].rc # PyInt(255)) =>
        /\ Len(children) = 1
        /\ children[1].prog = "ssh"
        /\ SubSeq(children[1].stdin.v, 1, 1) = <<"test -d ">>
        /\ (\A k \in 1..Len(op.target.v) : op.target.v[k] \in SafeChars) =>
                children[1].stdin.v = <<"test -d ">> \o op.target.v
        /\ ret.kind = "return"
        /\ ret.value.t = "list"
        /\ IF children[1].rc = PyInt(0)
           THEN /\ Len(ret.value.v) = Len(op.filenames.v)
                /\ \A i \in 1..Len(op.filenames.v) :
                     /\ ret.value.v[i].t = op.target.t
                     /\ IsJoined(ret.value.v[i].v, op.target.v, op.filenames.v[i].v)
           ELSE ret.value.v = <<op.target>>

\* C10 witness: for two file names, one of them below a directory, and a
\* successful "test -d", two targets were returned.
C10_Witness ==
    /\ op.name = "get_scp_targets" /\ ret.kind = "return"
    /\ children[1].rc = PyInt(0)
    /\ Len(op.filenames.v) = 2 /\ Len(op.filenames.v[1].v) = 3
    /\ Len(ret.value.v) = 2

\* C10 witness of the other side: two file names, a failing "test -d", and
\* the single target returned.
C10_WitnessNotDir ==
    /\ op.name = "get_scp_targets" /\ ret.kind = "return"
    /\ children[1].rc = PyInt(1)
    /\ Len(op.filenames.v) = 2
    /\ Len(ret.value.v) = 1

-----------------------------------------------------------------------------
(* Calls that overlap: run and scp called from two threads of one process *)

\* CPython installs signal handlers from the main thread only and runs them
\* in the main thread only; signal.alarm may be called from any thread.
Threads == {"main", "worker"}

MaxTimeout == 2

ThreadTimeouts == {PyInt(n) : n \in 0..MaxTimeout}

\* connections the threads call on
ThreadConns ==
    LET built == {SSHConnection(Lit(<<"h", "1">>), Lit(<<"r">>), PyNone, PyNone, PyNone, PyNone, t) :
                    t \in ThreadTimeouts}
    IN  {c \in built : ~IsExc(c)}

\* a thread that has not called yet, holding the connection it will call on
ThreadIdle(c) ==
    [pc |-> "idle", conn |-> c, op |-> [name |-> "none"], pipe |-> 0,
     out |-> PyNone, err |-> PyNone, exc |-> PyNone, ret |-> NoRet,
     left |-> 0, stray |-> FALSE]

InitThreads ==
    /\ py \in {2, 3}
    /\ op = [name |-> "none"]
    /\ conn = PyNone
    /\ ret = NoRet
    /\ alarm = "off"
    /\ fired = 0
    /\ handler = "SIG_DFL"
    /\ children = <<>>
    /\ tmp = NoTmp
    /\ scp_pc = "idle" /\ scp_f = NoFrame
    /\ gst_pc = "idle" /\ gst_f = NoFrame
    /\ run_pc = "idle" /\ run_f = NoFrame
    /\ due = 0
    /\ threads \in [Threads -> {ThreadIdle(c) : c \in ThreadConns}]

\* what the thread specification leaves alone
singlevars == <<py, op, conn, ret, tmp, scp_pc, scp_f, gst_pc, gst_f, run_pc, run_f>>

\* the call is between its signal.alarm(self.timeout) and its signal.alarm(0)
Outstanding(th) == th.pc \in {"armed", "communicate"}

\* a thread calls run(command) or scp(files, target) with file names only
thread_call(t) ==
    /\ threads[t].pc = "idle"
    /\ \E o \in {[name |-> "run", command |-> Lit(<<"whoami">>)],
                 [name |-> "scp", files |-> PyList(<<Lit(<<"a">>)>>), target |-> Lit(<<"/", "e">>)]} :
         threads' = [threads EXCEPT ![t].op = o, ![t].pc = "spawn"]
    /\ UNCHANGED <<singlevars, alarm, due, fired, handler, children>>

\* the argv of the child: lines 163 (run) and 213-219 (scp)
thread_argv(th) ==
    IF th.op.name = "run"
    THEN ssh_command(th.conn, Lit(<<"/bin/bash">>), FALSE)
    ELSE scp_command(th.conn, convert_files_to_filenames(th.op.files).filenames, th.op.target)

\* lines 163-166 and 213-222
thread_spawn(t) ==
    /\ threads[t].pc = "spawn"
    /\ LET argv == thread_argv(threads[t])
       IN  IF IsExc(argv)
           THEN /\ threads' = [threads EXCEPT ![t].ret = Raise(argv), ![t].pc = "done"]
                /\ UNCHANGED children
           ELSE /\ children' = Append(children, Popen(IF threads[t].op.name = "run" THEN "ssh" ELSE "scp"))
                /\ threads' = [threads EXCEPT ![t].pipe = Len(children) + 1, ![t].pc = "arm"]
    /\ UNCHANGED <<singlevars, alarm, due, fired, handler>>

\* signal.signal(SIGALRM, _timeout_handler): ValueError outside the main
\* thread, which lines 169-170 and 225-226 swallow
signal_signal(t, old) == IF t = "main" THEN "_timeout_handler" ELSE old

\* lines 167-173 and 223-228: install the handler where that is allowed and
\* set the one timer of the process to the timeout of this call
thread_arm(t) ==
    /\ threads[t].pc = "arm"
    /\ handler' = signal_signal(t, handler)
    /\ alarm' = signal_alarm(threads[t].conn.timeout)
    /\ due' = threads[t].conn.timeout.n
    /\ threads' = [threads EXCEPT ![t].left = threads[t].conn.timeout.n,
                                  ![t].out = b(Lit(<<>>)), ![t].err = b(Lit(<<>>)),
                                  ![t].pc = "armed"]
    /\ UNCHANGED <<singlevars, fired, children>>

\* lines 174-175 and 229-230: enter the try and block in communicate
thread_communicate(t) ==
    /\ threads[t].pc = "armed"
    /\ IF threads[t].op.name = "run"
       THEN children' = [children EXCEPT ![threads[t].pipe].stdin = b(threads[t].op.command)]
       ELSE UNCHANGED children
    /\ threads' = [threads EXCEPT ![t].pc = "communicate"]
    /\ UNCHANGED <<singlevars, alarm, due, fired, handler>>

\* lines 175 and 230: the child exits and communicate returns
thread_child_exits(t) ==
    /\ threads[t].pc = "communicate"
    /\ children[threads[t].pipe].state = "running"
    /\ \E out \in {<<>>, <<"x", "\n">>}, rc \in ExitCodes :
         /\ children' = [children EXCEPT ![threads[t].pipe].state = "exited",
                                         ![threads[t].pipe].rc = PyInt(rc)]
         /\ threads' = [threads EXCEPT ![t].out = IF threads[t].op.name = "run" THEN PyBytes(out) ELSE @,
                                       ![t].err = PyBytes(out),
                                       ![t].pc = "disarm"]
    /\ UNCHANGED <<singlevars, alarm, due, fired, handler>>

\* lines 178 and 233
thread_kill(t) ==
    /\ threads[t].pc = "kill"
    /\ children' = [children EXCEPT ![threads[t].pipe] = os_kill(@)]
    /\ threads' = [threads EXCEPT ![t].pc = "exc_disarm"]
    /\ UNCHANGED <<singlevars, alarm, due, fired, handler>>

\* lines 179 and 234: signal.alarm(0) turns the one timer of the process off
thread_exc_disarm(t) ==
    /\ threads[t].pc = "exc_disarm"
    /\ alarm' = signal_alarm(PyInt(0))
    /\ due' = 0
    /\ threads' = [threads EXCEPT ![t].pc = "exc_raise"]
    /\ UNCHANGED <<singlevars, fired, handler, children>>

\* lines 180 and 235-236 (no temporary directory for file names)
thread_exc_raise(t) ==
    /\ threads[t].pc = "exc_raise"
    /\ threads' = [threads EXCEPT ![t].ret = Raise(SSHError(threads[t].exc.msg)), ![t].pc = "done"]
    /\ UNCHANGED <<singlevars, alarm, due, fired, handler, children>>

\* lines 182 and 237: signal.alarm(0) turns the one timer of the process off
thread_disarm(t) ==
    /\ threads[t].pc = "disarm"
    /\ alarm' = signal_alarm(PyInt(0))
    /\ due' = 0
    /\ threads' = [threads EXCEPT ![t].pc = "check"]
    /\ UNCHANGED <<singlevars, fired, handler, children>>

\* what lines 183-186 (run) and 238-259 (scp without mode and owner) make of
\* the exit code
thread_result(th, returncode) ==
    IF th.op.name = "run"
    THEN LET r == run_result(th.op.command, th.out, th.err, returncode)
         IN  IF IsExc(r) THEN Raise(r) ELSE Return(r)
    ELSE IF scp_transfer_failed(returncode)
         THEN Raise(SSHError(strip(th.err).v))
         ELSE Return(PyNone)

thread_check(t) ==
    /\ threads[t].pc = "check"
    /\ threads' = [threads EXCEPT ![t].ret = thread_result(threads[t], children[threads[t].pipe].rc),
                                  ![t].pc = "done"]
    /\ UNCHANGED <<singlevars, alarm, due, fired, handler, children>>

\* a second passes: the timer of the process and the timeouts of the calls
\* that are outstanding run down
Elapse(th) == IF Outstanding(th) /\ th.left > 0 THEN [th EXCEPT !.left = @ - 1] ELSE th

\* lines 385-387: _timeout_handler runs in the main thread and raises IOError
\* where the main thread is: the except clause of its communicate catches
\* it, any other place inside run or scp lets it through, and outside the
\* two it is raised in the code of the caller
timeout_handler(th) ==
    IF th.pc = "communicate" THEN [th EXCEPT !.exc = TimeoutError, !.pc = "kill"]
    ELSE IF th.pc \in {"idle", "done"} THEN [th EXCEPT !.stray = TRUE]
    ELSE [th EXCEPT !.ret = Raise(TimeoutError), !.pc = "done"]

\* a second passes and the timer does not expire
second_passes ==
    /\ due # 1
    /\ due > 0 \/ \E t \in Threads : Elapse(threads[t]) # threads[t]
    /\ due' = IF due > 0 THEN due - 1 ELSE 0
    /\ threads' = [t \in Threads |-> Elapse(threads[t])]
    /\ UNCHANGED <<singlevars, alarm, fired, handler, children>>

\* a second passes, the timer expires and SIGALRM is delivered to the
\* process: the handler runs in the main thread
sigalrm_handled ==
    /\ due = 1 /\ handler = "_timeout_handler"
    /\ due' = 0 /\ alarm' = "off"
    /\ fired' = fired + 1
    /\ threads' = [t \in Threads |->
                     IF t = "main" THEN timeout_handler(Elapse(threads[t])) ELSE Elapse(threads[t])]
    /\ UNCHANGED <<singlevars, handler, children>>

\* the same with no handler installed (only the worker has armed the timer):
\* the default disposition of SIGALRM terminates the process
sigalrm_default ==
    /\ due = 1 /\ handler = "SIG_DFL"
    /\ due' = 0 /\ alarm' = "off"
    /\ fired' = fired + 1
    /\ threads' = [t \in Threads |-> [threads[t] EXCEPT !.pc = "killed"]]
    /\ UNCHANGED <<singlevars, handler, children>>

\* the operating system delivers SIGTERM and the signalled child ends
thread_child_dies ==
    /\ \E i \in 1..Len(children) :
         /\ children[i].state = "signalled"
         /\ children' = [children EXCEPT ![i].state = "dead"]
    /\ UNCHANGED <<singlevars, alarm, due, fired, handler, threads>>

NextThreads ==
    \/ \E t \in Threads : thread_call(t)
    \/ \E t \in Threads : thread_spawn(t)
    \/ \E t \in Threads : thread_arm(t)
    \/ \E t \in Threads : thread_communicate(t)
    \/ \E t \in Threads : thread_child_exits(t)
    \/ \E t \in Threads : thread_kill(t)
    \/ \E t \in Threads : thread_exc_disarm(t)
    \/ \E t \in Threads : thread_exc_raise(t)
    \/ \E t \in Threads : thread_disarm(t)
    \/ \E t \in Threads : thread_check(t)
    \/ second_passes
    \/ sigalrm_handled
    \/ sigalrm_default
    \/ thread_child_dies

SpecThreads == InitThreads /\ [][NextThreads]_vars

\* C11: the deadline of a run or scp call is a timer of its own. While a call
\* with a timeout is outstanding (armed and not yet disarmed), whatever the
\* other thread arms or disarms, a timer is pending and it has exactly the
\* time left that the timeout of this call has left: it was neither
\* cancelled, nor replaced, nor shortened, and so the call does not outlive
\* its own timeout.
C11_OwnDeadline ==
    \A t \in Threads :
        (Outstanding(threads[t]) /\ threads[t].conn.timeout.n > 0) =>
            /\ alarm = "armed"
            /\ due = threads[t].left

\* The calls C11 is about do happen: both threads are between arming and
\* disarming at once, each with a timeout.
C11_Overlap ==
    \A t \in Threads : Outstanding(threads[t]) /\ threads[t].conn.timeout.n > 0

\* Where no calls overlap the timer is the deadline of the one call of the
\* main thread: with the worker idle, C11_OwnDeadline holds of the main thread.
C11_AloneInMain ==
    (threads["worker"].pc = "idle" /\ Outstanding(threads["main"])
        /\ threads["main"].conn.timeout.n > 0) =>
            (alarm = "armed" /\ due = threads["main"].left)

====
